---- MODULE Spec2Model ----
(***************************************************************************)
(* Jira CSV -> DevRev ticket importer, both variants of the repository:    *)
(*   v1 = src/jira_to_devrev_importer_v1.py                                *)
(*   v2 = src/jira_to_devrev_importer_v2.py                                *)
(* The two scripts are run side by side on the same input file and the     *)
(* same API responses (a product of the two programs), so that properties  *)
(* of each variant and the relation between them are checked in one state  *)
(* space.  Variables ending in 1 belong to v1, those ending in 2 to v2.    *)
(*                                                                         *)
(* A Python str is a sequence of one-character strings; Python's None is   *)
(* the value None below; a dict is a function from its keys.               *)
(***************************************************************************)
EXTENDS Integers, Sequences, FiniteSets, TLC

\* Largest number of data lines in the input file.
MaxRows == 2

VARIABLES
    env,          \* v2: command line and environment of the process
    file,         \* the input file: [exists, decodable, lines]
    pc1, code1, rows1, idx1, success1, error1, posts1, isv1, out1, summary1,
    STATUS_MAP1,
    pc2, code2, rows2, idx2, success2, failed2, posts2, isv2, out2, summary2,
    STATUS_MAP2

shared == <<env, file>>
vars1 == <<pc1, code1, rows1, idx1, success1, error1, posts1, isv1, out1,
           summary1, STATUS_MAP1>>
vars2 == <<pc2, code2, rows2, idx2, success2, failed2, posts2, isv2, out2,
           summary2, STATUS_MAP2>>
vars == <<env, file, vars1, vars2>>

-----------------------------------------------------------------------------
(* Strings *)

None == <<"<None>">>

Whitespace == {" ", "\t", "\n"}

RECURSIVE lstrip(_)
lstrip(s) ==
    IF s # <<>> /\ Head(s) \in Whitespace THEN lstrip(Tail(s)) ELSE s

RECURSIVE rstrip(_)
rstrip(s) ==
    IF s # <<>> /\ s[Len(s)] \in Whitespace
    THEN rstrip(SubSeq(s, 1, Len(s) - 1))
    ELSE s

\* str.strip()
strip(s) == rstrip(lstrip(s))

\* The Python str of a character sequence (used as a dict key).
RECURSIVE Str(_)
Str(s) == IF s = <<>> THEN "" ELSE Head(s) \o Str(Tail(s))

-----------------------------------------------------------------------------
(* Configuration *)

\* The personal access token; only whether it is set matters.
DEVREV_TOKEN == "PAT"
APPLIES_TO_PART == "don:core:dvrv-eu-1:devo/31CcJe9Aoi:product/3"
OWNED_BY == <<"don:identity:dvrv-eu-1:devo/31CcJe9Aoi:devu/1">>

StatusMap ==
    ("Open" :> "prioritized") @@
    ("Work In Progress" :> "work_in_progress") @@
    ("Blocked" :> "wont_fix") @@
    ("Reopened" :> "in_review") @@
    ("Closed" :> "Done") @@
    ("Awaiting implementation" :> "awaiting_product_assist") @@
    ("Planning" :> "To Do") @@
    ("Waiting for customer" :> "awaiting_customer_response") @@
    ("Implementing" :> "in_deployment") @@
    ("Declined" :> "wont_do")

\* dict.get(key, default) on a dict keyed by str
DictGet(d, key, default) == IF key \in DOMAIN d THEN d[key] ELSE default

\* v2's process environment: the positional csv_path, DEVREV_TOKEN,
\* --applies-to-part / DEVREV_APPLIES_TO_PART, --owned-by / DEVREV_OWNED_BY_DEFAULT.
\* An unset string is "", an unset list is <<>>.
EnvOK ==
    [csv_path |-> TRUE, token |-> DEVREV_TOKEN, part |-> APPLIES_TO_PART,
     owned_by |-> OWNED_BY]

Envs ==
    { EnvOK,
      [EnvOK EXCEPT !.csv_path = FALSE],
      [EnvOK EXCEPT !.token = ""],
      [EnvOK EXCEPT !.part = ""],
      [EnvOK EXCEPT !.owned_by = <<>>] }

-----------------------------------------------------------------------------
(* Input file and csv.DictReader *)

cA == <<"A">>
cPadA == <<" ", "A", " ">>
cD == <<"d">>
cPadD == <<"\t", "d">>
cEmpty == <<>>
cBlank == <<" ">>
cOpen == <<"O", "p", "e", "n">>
cPadOpen == <<" ", "O", "p", "e", "n", " ">>
cLowerOpen == <<"o", "p", "e", "n">>
cUpperOpen == <<"O", "P", "E", "N">>
cClosed == <<"C", "l", "o", "s", "e", "d">>

\* Data lines of the file, already split at the ";" delimiter.
DataLines ==
    { <<cA, cD, cOpen>>,
      <<cPadA, cPadD, cPadOpen>>,
      <<cA, cD, cLowerOpen>>,
      <<cA, cD, cUpperOpen>>,
      <<cEmpty, cD, cClosed>>,
      <<cA, cBlank, cOpen>>,
      <<cA, cD, cBlank>>,
      <<cA>>,
      <<cEmpty, cEmpty>>,
      <<cA, cD, cClosed, cA>>,
      <<>> }

Headers == { <<"Title", "Description", "Status">>, <<"Title", "Description">> }

SeqsUpTo(S, n) == UNION { [1..k -> S] : k \in 0..n }

Files ==
    { [exists |-> FALSE, decodable |-> TRUE, lines |-> <<>>],
      [exists |-> TRUE, decodable |-> FALSE, lines |-> <<>>],
      [exists |-> TRUE, decodable |-> TRUE, lines |-> <<>>] }
    \cup
    { [exists |-> TRUE, decodable |-> TRUE, lines |-> <<h>> \o d] :
        h \in Headers, d \in SeqsUpTo(DataLines, MaxRows) }

RestKey == "<restkey>"

\* One row of csv.DictReader: the fields zipped with the field names, a
\* missing field is restval (None), surplus fields go under restkey.
DictRow(fieldnames, row) ==
    LET lf == Len(fieldnames)
        lr == Len(row)
        named == [k \in {fieldnames[i] : i \in 1..lf} |->
                    LET i == CHOOSE j \in 1..lf : fieldnames[j] = k
                    IN IF i <= lr THEN row[i] ELSE None]
    IN IF lr > lf
       THEN named @@ (RestKey :> SubSeq(row, lf + 1, lr))
       ELSE named

RECURSIVE DictRows(_, _)
DictRows(fieldnames, lines) ==
    IF lines = <<>> THEN <<>>
    ELSE IF Head(lines) = <<>> THEN DictRows(fieldnames, Tail(lines))
    ELSE <<DictRow(fieldnames, Head(lines))>> \o DictRows(fieldnames, Tail(lines))

\* list(csv.DictReader(file, delimiter=";")): the first line names the fields.
DictReader(lines) ==
    IF lines = <<>> THEN <<>> ELSE DictRows(Head(lines), Tail(lines))

-----------------------------------------------------------------------------
(* The API: what one requests.post(..., timeout=30) can end in *)

BodyTicket == "{\"work\": {\"display_id\": \"TKT-1\"}}"
BodyNoWork == "{}"
BodyNoId == "{\"work\": {}}"
BodyNullWork == "{\"work\": null}"
BodyHtml == "<html>Bad Gateway</html>"
BodyError == "{\"message\": \"Bad Request\"}"

Http(status, text) == [kind |-> "http", status |-> status, text |-> text]

\* No request was made for the record.
NoResponse == [kind |-> "none", status |-> 0, text |-> ""]

Responses ==
    { Http(200, BodyTicket),
      Http(201, BodyNoWork),
      Http(200, BodyNoId),
      Http(200, BodyNullWork),
      Http(200, BodyHtml),
      Http(304, BodyTicket),
      Http(404, BodyError),
      Http(500, BodyHtml),
      [kind |-> "Timeout", status |-> 0, text |-> "Read timed out."],
      [kind |-> "ConnectionError", status |-> 0, text |-> "Connection refused"] }

\* Response.raise_for_status() raises HTTPError for 4xx and 5xx.
raise_for_status(r) == 400 <= r.status /\ r.status < 600

\* Mutants of Response.ok: only 5xx counts as an error; only 2xx counts as ok.
ok_below_500(r) == r.status < 500

ok_only_2xx(r) == 200 <= r.status /\ r.status < 300

\* Response.ok
ok(r) == ~raise_for_status(r)

\* Response.json(): the parsed body, described by what the code reads of it.
json(text) ==
    CASE text = BodyTicket ->
           [error |-> FALSE, has_work |-> TRUE, work_is_dict |-> TRUE,
            has_id |-> TRUE, display_id |-> "TKT-1"]
      [] text = BodyNoWork ->
           [error |-> FALSE, has_work |-> FALSE, work_is_dict |-> FALSE,
            has_id |-> FALSE, display_id |-> ""]
      [] text = BodyNoId ->
           [error |-> FALSE, has_work |-> TRUE, work_is_dict |-> TRUE,
            has_id |-> FALSE, display_id |-> ""]
      [] text = BodyNullWork ->
           [error |-> FALSE, has_work |-> TRUE, work_is_dict |-> FALSE,
            has_id |-> FALSE, display_id |-> ""]
      [] text = BodyError ->
           [error |-> FALSE, has_work |-> FALSE, work_is_dict |-> FALSE,
            has_id |-> FALSE, display_id |-> ""]
      [] OTHER ->
           [error |-> TRUE, has_work |-> FALSE, work_is_dict |-> FALSE,
            has_id |-> FALSE, display_id |-> ""]

-----------------------------------------------------------------------------
(* Record Validator *)

required_fields == <<"Title", "Description", "Status">>

\* all(row.get(field, "").strip() for field in fields), left to right:
\* "True", "False", or "AttributeError" when a field's value is None.
RECURSIVE all_stripped(_, _)
all_stripped(row, fields) ==
    IF fields = <<>> THEN "True"
    ELSE LET v == DictGet(row, Head(fields), <<>>)
         IN IF v = None THEN "AttributeError"
            ELSE IF strip(v) = <<>> THEN "False"
            ELSE all_stripped(row, Tail(fields))

is_valid1(row) == all_stripped(row, <<"Title", "Description", "Status">>)

is_valid2(row) == all_stripped(row, required_fields)

-----------------------------------------------------------------------------
(* Ticket Submitter *)

\* What one call of create_ticket did: the payload it sent, the exception it
\* raised ("" when it returned), the HTTP status and text the exception
\* carries, and the display id it logged.
Returned(payload, display) ==
    [payload |-> payload, raised |-> "", status |-> 0, text |-> "",
     display |-> display]

Raised(payload, exc, status, text) ==
    [payload |-> payload, raised |-> exc, status |-> status, text |-> text,
     display |-> ""]

\* ticket = response.json().get("work", {}); ticket.get('display_id', 'Unknown ID')
read_ticket(payload, r) ==
    LET body == json(r.text)
    IN IF body.error THEN Raised(payload, "JSONDecodeError", 0, r.text)
       ELSE IF body.has_work /\ ~body.work_is_dict
            THEN Raised(payload, "AttributeError", 0, "")
       ELSE Returned(payload,
                     IF body.has_work /\ body.has_id THEN body.display_id
                     ELSE "Unknown ID")

\* Mutant: an unmapped status falls back to the first stage of the map.
stage_of_wrong_default(status_map, status) ==
    DictGet(status_map, Str(status), "prioritized")

\* STATUS_MAP.get(status, "open")
stage_of(status_map, status) == DictGet(status_map, Str(status), "open")

create_ticket1(title, description, status, status_map, r) ==
    LET stage_name == stage_of(status_map, status)
        payload == [type |-> "ticket",
                    applies_to_part |-> APPLIES_TO_PART,
                    owned_by |-> OWNED_BY,
                    title |-> title,
                    body |-> description,
                    stage |-> [name |-> stage_name]]
    IN IF r.kind # "http" THEN Raised(payload, r.kind, 0, r.text)
       ELSE IF ok(r) THEN read_ticket(payload, r)
       ELSE Raised(payload, "RuntimeError", r.status, r.text)

create_ticket2(title, description, status, applies_to_part, owned_by, status_map, r) ==
    LET stage_name == stage_of(status_map, status)
        payload == [type |-> "ticket",
                    applies_to_part |-> applies_to_part,
                    owned_by |-> owned_by,
                    title |-> title,
                    body |-> description,
                    stage |-> [name |-> stage_name]]
    IN IF r.kind # "http" THEN Raised(payload, r.kind, 0, r.text)
       ELSE IF raise_for_status(r)
            THEN Raised(payload, "HTTPError", r.status, r.text)
       ELSE read_ticket(payload, r)

-----------------------------------------------------------------------------
(* Batch Runner *)

\* The outcome of the record handled last: what became of it, the response
\* its request got, and what create_ticket returned or raised.
NoOutcome ==
    [kind |-> "none", resp |-> NoResponse, raised |-> "", status |-> 0,
     text |-> "", display |-> ""]

Outcome(kind, r, t) ==
    [kind |-> kind, resp |-> r, raised |-> t.raised, status |-> t.status,
     text |-> t.text, display |-> t.display]

\* The record is dropped before any request, or is_valid itself raised.
NoCall(kind, exc) ==
    [kind |-> kind, resp |-> NoResponse, raised |-> exc, status |-> 0,
     text |-> "", display |-> ""]

Init ==
    /\ env \in Envs
    /\ file \in Files
    /\ pc1 = "main" /\ code1 = -1 /\ rows1 = <<>> /\ idx1 = 0
    /\ success1 = 0 /\ error1 = 0 /\ posts1 = <<>> /\ isv1 = ""
    /\ out1 = NoOutcome /\ summary1 = <<>> /\ STATUS_MAP1 = StatusMap
    /\ pc2 = "main" /\ code2 = -1 /\ rows2 = <<>> /\ idx2 = 0
    /\ success2 = 0 /\ failed2 = 0 /\ posts2 = <<>> /\ isv2 = ""
    /\ out2 = NoOutcome /\ summary2 = <<>> /\ STATUS_MAP2 = StatusMap

(* ---- v1 ---- *)

\* sys.exit(code), or the end of the script (code 0).
Exit1(code) == pc1' = "done" /\ code1' = code

\* __main__: process_csv(CSV_PATH) with the module's own settings.
Main1 ==
    /\ pc1 = "main"
    /\ pc1' = "read"
    /\ success1' = 0 /\ error1' = 0
    /\ UNCHANGED <<code1, rows1, idx1, posts1, isv1, out1, summary1, STATUS_MAP1>>

\* open() and list(reader); an exception leaves process_csv and __main__
\* exits 1.  A for loop over no rows falls through to the summary.
Read1 ==
    /\ pc1 = "read"
    /\ IF ~file.exists \/ ~file.decodable
       THEN /\ Exit1(1)
            /\ UNCHANGED rows1
       ELSE /\ rows1' = DictReader(file.lines)
            /\ pc1' = IF rows1' = <<>> THEN "summary" ELSE "loop"
            /\ UNCHANGED code1
    /\ UNCHANGED <<idx1, success1, error1, posts1, isv1, out1, summary1, STATUS_MAP1>>

\* The loop moves on to the next row, or ends.
Advance1 ==
    /\ idx1' = idx1 + 1
    /\ pc1' = IF idx1' = Len(rows1) THEN "summary" ELSE "loop"
    /\ UNCHANGED code1

\* is_valid raised: the exception leaves process_csv, __main__ exits 1.
Crash1(exc) ==
    /\ Exit1(1)
    /\ out1' = NoCall("crashed", exc)
    /\ UNCHANGED <<idx1, success1, error1, posts1>>

\* Mutant: the skipped record is not counted.
Skip1_uncounted ==
    /\ out1' = NoCall("skipped", "")
    /\ Advance1
    /\ UNCHANGED <<success1, error1, posts1>>

\* if not is_valid(row): warn, error += 1, continue
Skip1 ==
    /\ error1' = error1 + 1
    /\ out1' = NoCall("skipped", "")
    /\ Advance1
    /\ UNCHANGED <<success1, posts1>>

\* Mutant: no try/except around create_ticket, its exception ends the run.
Submit1_uncaught(row, r) ==
    LET status == strip(row["Status"])
        t == create_ticket1(strip(row["Title"]), strip(row["Description"]),
                            status, STATUS_MAP1, r)
    IN /\ posts1' = Append(posts1, [status |-> status, payload |-> t.payload])
       /\ IF t.raised = ""
          THEN /\ success1' = success1 + 1
               /\ out1' = Outcome("created", r, t)
               /\ Advance1
               /\ UNCHANGED error1
          ELSE /\ out1' = Outcome("failed", r, t)
               /\ Exit1(1)
               /\ UNCHANGED <<idx1, success1, error1>>

\* try: create_ticket(...); success += 1 / except Exception: error += 1
Submit1(row, r) ==
    LET status == strip(row["Status"])
        t == create_ticket1(strip(row["Title"]), strip(row["Description"]),
                            status, STATUS_MAP1, r)
    IN /\ posts1' = Append(posts1, [status |-> status, payload |-> t.payload])
       /\ IF t.raised = ""
          THEN /\ success1' = success1 + 1
               /\ out1' = Outcome("created", r, t)
               /\ UNCHANGED error1
          ELSE /\ error1' = error1 + 1
               /\ out1' = Outcome("failed", r, t)
               /\ UNCHANGED success1
       /\ Advance1

\* One iteration of "for row in rows"; r is what the request ends in.
Row1(r) ==
    /\ pc1 = "loop"
    /\ LET row == rows1[idx1 + 1]
           v == is_valid1(row)
       IN /\ isv1' = v
          /\ CASE v = "AttributeError" -> Crash1(v)
               [] v = "False" -> Skip1
               [] OTHER -> Submit1(row, r)
    /\ UNCHANGED <<rows1, summary1, STATUS_MAP1>>

\* The Import Summary, then "Done!" and the end of the script.
Summary1 ==
    /\ pc1 = "summary"
    /\ summary1' = <<success1, error1>>
    /\ Exit1(0)
    /\ UNCHANGED <<rows1, idx1, success1, error1, posts1, isv1, out1, STATUS_MAP1>>

(* ---- v2 ---- *)

Exit2(code) == pc2' = "done" /\ code2' = code

\* __main__: argparse (a missing csv_path exits 2), then the three checks.
Main2 ==
    /\ pc2 = "main"
    /\ IF ~env.csv_path THEN Exit2(2)
       ELSE IF env.token = "" THEN Exit2(1)
       ELSE IF env.part = "" THEN Exit2(1)
       ELSE IF env.owned_by = <<>> THEN Exit2(1)
       ELSE pc2' = "read" /\ UNCHANGED code2
    /\ success2' = 0 /\ failed2' = 0
    /\ UNCHANGED <<rows2, idx2, posts2, isv2, out2, summary2, STATUS_MAP2>>

\* exists(), open() and list(reader); no rows: a warning and return, after
\* which __main__ logs "Done!" and the script ends.
Read2 ==
    /\ pc2 = "read"
    /\ IF ~file.exists \/ ~file.decodable
       THEN /\ Exit2(1)
            /\ UNCHANGED rows2
       ELSE /\ rows2' = DictReader(file.lines)
            /\ IF rows2' = <<>>
               THEN Exit2(0)
               ELSE pc2' = "loop" /\ UNCHANGED code2
    /\ UNCHANGED <<idx2, success2, failed2, posts2, isv2, out2, summary2, STATUS_MAP2>>

\* The loop moves on to the next row, or ends.
Advance2 ==
    /\ idx2' = idx2 + 1
    /\ pc2' = IF idx2' = Len(rows2) THEN "summary" ELSE "loop"
    /\ UNCHANGED code2

\* is_valid raised: process_csv's outer except Exception calls sys.exit(1).
Crash2(exc) ==
    /\ Exit2(1)
    /\ out2' = NoCall("crashed", exc)
    /\ UNCHANGED <<idx2, success2, failed2, posts2>>

\* if not is_valid(row): warn, failed += 1, continue
Skip2 ==
    /\ failed2' = failed2 + 1
    /\ out2' = NoCall("skipped", "")
    /\ Advance2
    /\ UNCHANGED <<success2, posts2>>

\* try: create_ticket(...); success += 1 / except Exception: failed += 1
Submit2(row, r) ==
    LET status == strip(row["Status"])
        t == create_ticket2(strip(row["Title"]), strip(row["Description"]),
                            status, env.part, env.owned_by,
                                    STATUS_MAP2, r)
    IN /\ posts2' = Append(posts2, [status |-> status, payload |-> t.payload])
       /\ IF t.raised = ""
          THEN /\ success2' = success2 + 1
               /\ out2' = Outcome("created", r, t)
               /\ UNCHANGED failed2
          ELSE /\ failed2' = failed2 + 1
               /\ out2' = Outcome("failed", r, t)
               /\ UNCHANGED success2
       /\ Advance2

\* One iteration of "for i, row in enumerate(rows)"; r is what the request ends in.
Row2(r) ==
    /\ pc2 = "loop"
    /\ LET row == rows2[idx2 + 1]
           v == is_valid2(row)
       IN /\ isv2' = v
          /\ CASE v = "AttributeError" -> Crash2(v)
               [] v = "False" -> Skip2
               [] OTHER -> Submit2(row, r)
    /\ UNCHANGED <<rows2, summary2, STATUS_MAP2>>

Summary2 ==
    /\ pc2 = "summary"
    /\ summary2' = <<success2, failed2>>
    /\ Exit2(0)
    /\ UNCHANGED <<rows2, idx2, success2, failed2, posts2, isv2, out2, STATUS_MAP2>>

(* ---- the two variants side by side ---- *)

\* Whether the record at hand leads to a request.
Calls1 == pc1 = "loop" /\ is_valid1(rows1[idx1 + 1]) = "True"
Calls2 == pc2 = "loop" /\ is_valid2(rows2[idx2 + 1]) = "True"

\* A step of the pair: each variant that is at the step's phase takes it, the
\* other stays where it is.
MainStep ==
    /\ pc1 = "main" \/ pc2 = "main"
    /\ IF pc1 = "main" THEN Main1 ELSE UNCHANGED vars1
    /\ IF pc2 = "main" THEN Main2 ELSE UNCHANGED vars2
    /\ UNCHANGED shared

ReadStep ==
    /\ pc1 = "read" \/ pc2 = "read"
    /\ IF pc1 = "read" THEN Read1 ELSE UNCHANGED vars1
    /\ IF pc2 = "read" THEN Read2 ELSE UNCHANGED vars2
    /\ UNCHANGED shared

\* Both variants handle their next record; a request made for it gets the
\* same response in both.
RowStep ==
    /\ pc1 = "loop" \/ pc2 = "loop"
    /\ \E r \in (IF Calls1 \/ Calls2 THEN Responses ELSE {NoResponse}) :
          /\ IF pc1 = "loop" THEN Row1(r) ELSE UNCHANGED vars1
          /\ IF pc2 = "loop" THEN Row2(r) ELSE UNCHANGED vars2
    /\ UNCHANGED shared

SummaryStep ==
    /\ pc1 = "summary" \/ pc2 = "summary"
    /\ IF pc1 = "summary" THEN Summary1 ELSE UNCHANGED vars1
    /\ IF pc2 = "summary" THEN Summary2 ELSE UNCHANGED vars2
    /\ UNCHANGED shared

Next == MainStep \/ ReadStep \/ RowStep \/ SummaryStep

Spec == Init /\ [][Next]_vars

-----------------------------------------------------------------------------
(* Properties *)

\* The file was opened and parsed.
FileRead == file.exists /\ file.decodable

\* The specification's validity of a record: Title, Description and Status
\* are present, hold a string, and are non-empty once trimmed.
SpecValid(row) ==
    \A f \in {"Title", "Description", "Status"} :
        /\ f \in DOMAIN row
        /\ row[f] # None
        /\ strip(row[f]) # <<>>

\* The requests the specification expects for a list of records.
ExpectedPosts(rows) ==
    LET valid == SelectSeq(rows, SpecValid)
    IN [i \in 1..Len(valid) |->
          [title |-> strip(valid[i]["Title"]),
           body |-> strip(valid[i]["Description"]),
           status |-> strip(valid[i]["Status"])]]

SentPosts(posts) ==
    [i \in 1..Len(posts) |->
       [title |-> posts[i].payload.title,
        body |-> posts[i].payload.body,
        status |-> posts[i].status]]

Payloads(posts) == [i \in 1..Len(posts) |-> posts[i].payload]

Is2xx(r) == r.kind = "http" /\ 200 <= r.status /\ r.status < 300
Is4xx5xx(r) == r.kind = "http" /\ 400 <= r.status /\ r.status < 600
IsTransportError(r) == r.kind \in {"Timeout", "ConnectionError"}

\* The counters of C1 in a state, and across one step.
C1_Counts ==
    /\ success1 + error1 = idx1
    /\ success2 + failed2 = idx2
    /\ (pc1 = "done" /\ code1 = 0) => idx1 = Len(rows1)
    /\ (pc2 = "done" /\ code2 = 0) => idx2 = Len(rows2)
    /\ summary1 # <<>> => summary1[1] + summary1[2] = Len(rows1)
    /\ summary2 # <<>> => summary2[1] + summary2[2] = Len(rows2)

C1_Step ==
    /\ idx1' # idx1 =>
         /\ idx1' = idx1 + 1
         /\ \/ success1' = success1 + 1 /\ error1' = error1
            \/ success1' = success1 /\ error1' = error1 + 1
    /\ idx1' = idx1 => (success1' = success1 /\ error1' = error1)
    /\ idx2' # idx2 =>
         /\ idx2' = idx2 + 1
         /\ \/ success2' = success2 + 1 /\ failed2' = failed2
            \/ success2' = success2 /\ failed2' = failed2 + 1
    /\ idx2' = idx2 => (success2' = success2 /\ failed2' = failed2)

(* C1: a run of process_csv that reaches its end gave every record exactly  *)
(* one outcome: handling a record adds exactly 1 to exactly one of the two  *)
(* counters, success + failed is the number of records handled so far, and  *)
(* at the end (and in the summary) success + failed is the number N of      *)
(* records.                                                                 *)
C1_OneOutcomePerRecord == []C1_Counts /\ [][C1_Step]_vars

\* Both variants ended a two-record run with one success and one failure.
C1_Witness ==
    /\ pc1 = "done" /\ code1 = 0 /\ Len(rows1) = 2
    /\ success1 = 1 /\ error1 = 1 /\ summary1 = <<1, 1>>
    /\ pc2 = "done" /\ code2 = 0 /\ Len(rows2) = 2
    /\ success2 = 1 /\ failed2 = 1 /\ summary2 = <<1, 1>>

(* C2: for every input of N records of which K are invalid, the requests    *)
(* made by process_csv are exactly the valid records in file order, one     *)
(* request each (N-K in all), none for an invalid record.                   *)
C2_PostsAreValidRecords ==
    /\ (pc1 = "done" /\ FileRead) =>
          SentPosts(posts1) = ExpectedPosts(DictReader(file.lines))
    /\ (pc2 = "done" /\ FileRead /\ env = EnvOK) =>
          SentPosts(posts2) = ExpectedPosts(DictReader(file.lines))

\* C3 across one step, and what a non-zero exit after reading can come from.
C3_Step ==
    /\ (/\ Calls1
        /\ vars1' # vars1
        /\ create_ticket1(<<>>, <<>>, <<>>, STATUS_MAP1, out1'.resp).raised # "") =>
            /\ out1'.kind = "failed"
            /\ error1' = error1 + 1 /\ success1' = success1
            /\ idx1' = idx1 + 1
            /\ code1' = -1
            /\ pc1' = IF idx1 + 1 < Len(rows1) THEN "loop" ELSE "summary"
    /\ (/\ Calls2
        /\ vars2' # vars2
        /\ create_ticket2(<<>>, <<>>, <<>>, "", <<>>, STATUS_MAP2, out2'.resp).raised # "") =>
            /\ out2'.kind = "failed"
            /\ failed2' = failed2 + 1 /\ success2' = success2
            /\ idx2' = idx2 + 1
            /\ code2' = -1
            /\ pc2' = IF idx2 + 1 < Len(rows2) THEN "loop" ELSE "summary"

C3_NoAbort ==
    /\ (code1 = 1 /\ rows1 # <<>>) => out1.kind = "crashed"
    /\ (code2 = 1 /\ rows2 # <<>>) => out2.kind = "crashed"
    /\ out1.kind = "failed" => code1 \in {-1, 0}
    /\ out2.kind = "failed" => code2 \in {-1, 0}

(* C3: whenever create_ticket raises for a record, process_csv catches it,  *)
(* counts the record as failed and not as success, does not exit, and goes  *)
(* on with the next record, or with the summary after the last one; the     *)
(* only thing that ends a run with exit code 1 after the file was read is   *)
(* is_valid raising, never an error of create_ticket.                       *)
C3_FailureIsCaught == []C3_NoAbort /\ [][C3_Step]_vars

\* The first record's request timed out, the second record was then
\* submitted and created, and the run ended with the summary.
C3_Witness ==
    /\ pc1 = "done" /\ code1 = 0 /\ summary1 = <<1, 1>>
    /\ Len(posts1) = 2 /\ out1.kind = "created"
    /\ pc2 = "done" /\ code2 = 0 /\ summary2 = <<1, 1>>
    /\ Len(posts2) = 2 /\ out2.kind = "created"

(* C4: is_valid is total: for every record of the Record Source, also one   *)
(* with fewer fields than the header, it returns True iff Title,            *)
(* Description and Status are present and non-empty once trimmed, and       *)
(* returns False, never raising, otherwise.                                 *)
C4_IsValidTotal ==
    /\ isv1 # "" =>
         LET row == rows1[IF out1.kind = "crashed" THEN idx1 + 1 ELSE idx1]
         IN isv1 = IF SpecValid(row) THEN "True" ELSE "False"
    /\ isv2 # "" =>
         LET row == rows2[IF out2.kind = "crashed" THEN idx2 + 1 ELSE idx2]
         IN isv2 = IF SpecValid(row) THEN "True" ELSE "False"

\* The stage the specification gives for a status string.
ExpectedStage(s) ==
    CASE s = "Open" -> "prioritized"
      [] s = "Work In Progress" -> "work_in_progress"
      [] s = "Blocked" -> "wont_fix"
      [] s = "Reopened" -> "in_review"
      [] s = "Closed" -> "Done"
      [] s = "Awaiting implementation" -> "awaiting_product_assist"
      [] s = "Planning" -> "To Do"
      [] s = "Waiting for customer" -> "awaiting_customer_response"
      [] s = "Implementing" -> "in_deployment"
      [] s = "Declined" -> "wont_do"
      [] OTHER -> "open"

(* C5: the stage name in every request payload is the STATUS_MAP value of   *)
(* the status string passed to create_ticket when that exact string is a    *)
(* key, and "open" otherwise; the lookup is case-sensitive ("Open" gives    *)
(* "prioritized", "open" and "OPEN" give "open"); the status passed is the  *)
(* trimmed Status field; STATUS_MAP is never modified.                      *)
C5_StageOfStatus ==
    /\ STATUS_MAP1 = StatusMap /\ STATUS_MAP2 = StatusMap
    /\ \A i \in 1..Len(posts1) :
         /\ posts1[i].payload.stage.name = ExpectedStage(Str(posts1[i].status))
         /\ posts1[i].status = strip(posts1[i].status)
    /\ \A i \in 1..Len(posts2) :
         /\ posts2[i].payload.stage.name = ExpectedStage(Str(posts2[i].status))
         /\ posts2[i].status = strip(posts2[i].status)

\* Both variants sent " Open " as "prioritized" and then "OPEN" as "open".
C5_Witness ==
    /\ Len(posts1) = 2 /\ Len(posts2) = 2
    /\ rows1[1]["Status"] = cPadOpen
    /\ posts1[1].payload.stage.name = "prioritized"
    /\ posts2[1].payload.stage.name = "prioritized"
    /\ Str(posts1[2].status) = "OPEN" /\ posts1[2].payload.stage.name = "open"
    /\ Str(posts2[2].status) = "OPEN" /\ posts2[2].payload.stage.name = "open"

(* C6: every submission that gets a 2xx response is counted as a success,   *)
(* carrying the display_id of "work" or the unknown-ID sentinel; a 2xx      *)
(* response never makes the record count as failed.                         *)
C6_2xxIsSuccess ==
    /\ Is2xx(out1.resp) =>
         /\ out1.kind = "created"
         /\ out1.display \in {"TKT-1", "Unknown ID"}
    /\ Is2xx(out2.resp) =>
         /\ out2.kind = "created"
         /\ out2.display \in {"TKT-1", "Unknown ID"}

\* The record was counted as failed with an error carrying the response.
C7_Failed1(r) ==
    /\ out1.kind = "failed"
    /\ IF r.kind = "http"
       THEN out1.status = r.status /\ out1.text = r.text
       ELSE out1.raised = r.kind /\ out1.text = r.text

C7_Failed2(r) ==
    /\ out2.kind = "failed"
    /\ IF r.kind = "http"
       THEN out2.status = r.status /\ out2.text = r.text
       ELSE out2.raised = r.kind /\ out2.text = r.text

(* C7: every submission whose response status is not 2xx, and every one     *)
(* that ends in a transport error, fails with an error carrying the status  *)
(* code and body text (or the transport error's description), and its       *)
(* record is counted as failed, never as a success.                         *)
C7_Non2xxFails ==
    /\ ((out1.resp.kind = "http" /\ ~Is2xx(out1.resp)) \/ IsTransportError(out1.resp))
          => C7_Failed1(out1.resp)
    /\ ((out2.resp.kind = "http" /\ ~Is2xx(out2.resp)) \/ IsTransportError(out2.resp))
          => C7_Failed2(out2.resp)

\* The amended C7 in a state, and across one step.
C7_State ==
    /\ (Is4xx5xx(out1.resp) \/ IsTransportError(out1.resp)) => C7_Failed1(out1.resp)
    /\ (Is4xx5xx(out2.resp) \/ IsTransportError(out2.resp)) => C7_Failed2(out2.resp)

C7_Step ==
    /\ (idx1' # idx1 /\ (Is4xx5xx(out1'.resp) \/ IsTransportError(out1'.resp))) =>
          (error1' = error1 + 1 /\ success1' = success1)
    /\ (idx2' # idx2 /\ (Is4xx5xx(out2'.resp) \/ IsTransportError(out2'.resp))) =>
          (failed2' = failed2 + 1 /\ success2' = success2)

(* C7 as amended: every submission whose response status is 4xx or 5xx,    *)
(* and every one that ends in a transport error, fails with an error        *)
(* carrying the status code and body text (or the transport error's         *)
(* description), and its record is counted as failed, never as a success.   *)
(* A response with any other status, such as a 3xx that is not followed,    *)
(* is handled like a 2xx.                                                   *)
C7_ErrorStatusFails == []C7_State /\ [][C7_Step]_vars

\* A 404 was counted as failed in both variants, carrying 404 and the body.
C7_Witness ==
    /\ out1.resp = Http(404, BodyError) /\ out1.kind = "failed"
    /\ out1.raised = "RuntimeError" /\ out1.status = 404 /\ error1 = 1
    /\ out2.resp = Http(404, BodyError) /\ out2.kind = "failed"
    /\ out2.raised = "HTTPError" /\ out2.status = 404 /\ failed2 = 1

(* C8: the process exits non-zero only when required configuration is       *)
(* absent or the input file cannot be opened or parsed, and then before     *)
(* any record was processed (no request was made); no record content and    *)
(* no API outcome causes a non-zero exit once the file was read.            *)
C8_NonZeroExitOnlyFatal ==
    /\ code1 \notin {-1, 0} => (~FileRead /\ posts1 = <<>> /\ idx1 = 0)
    /\ code2 \notin {-1, 0} =>
          ((env # EnvOK \/ ~FileRead) /\ posts2 = <<>> /\ idx2 = 0)

(* C9: every run that read the input file ends with the two-line summary,   *)
(* emitted after the last record and not before; a header-only file gives   *)
(* zero records and a summary of Success: 0, Failed: 0.                     *)
C9_SummaryEmitted ==
    /\ (pc1 = "done" /\ FileRead) =>
          (summary1 = <<success1, error1>> /\ idx1 = Len(rows1))
    /\ (pc2 = "done" /\ FileRead /\ env = EnvOK) =>
          (summary2 = <<success2, failed2>> /\ idx2 = Len(rows2))
    /\ summary1 # <<>> => idx1 = Len(rows1)
    /\ summary2 # <<>> => idx2 = Len(rows2)

(* C10: for the same records, the same configuration values and the same    *)
(* API responses, v1 and v2 send the same sequence of request payloads and  *)
(* finish with the same success and failed counts and the same exit         *)
(* outcome.                                                                 *)
C10_VariantsAgree ==
    env = EnvOK =>
        /\ Payloads(posts1) = Payloads(posts2)
        /\ (pc1 = "done" /\ pc2 = "done") =>
              /\ code1 = code2
              /\ success1 = success2
              /\ error1 = failed2

\* Both variants finished a run of two requests, one created and the last
\* answered 404.
C10_Witness ==
    /\ env = EnvOK /\ pc1 = "done" /\ pc2 = "done"
    /\ Len(posts1) = 2 /\ Len(posts2) = 2
    /\ success1 >= 1 /\ code1 = 0 /\ code2 = 0
    /\ out1.resp.status = 404 /\ out2.resp.status = 404

====
